---------------------------- MODULE Spec2Model ----------------------------
(***************************************************************************)
(* Sequential conditional simulation of a spatially correlated field       *)
(* (loop.py).  main walks an M x N grid row by row; for every cell it      *)
(* reduces the row's window template to the cell's conditioning window,    *)
(* merges the stations in range, solves (or reuses) the conditional        *)
(* weights and stores the value together with the resampling metadata.     *)
(*                                                                         *)
(* Numbers.  The grid is uniformly spaced: cell g = row*N + col sits at    *)
(* (col*d, row*l).  geodetic_distance is represented by the squared        *)
(* Euclidean distance in these units, so "dist < r" is "dist2 < r*r".      *)
(* The correlation model is an external library; calculate_corr is         *)
(* represented by a deterministic integer function of the distance matrix  *)
(* it is given, and field values are kept modulo Modulus.                  *)
(***************************************************************************)
EXTENDS Integers, Sequences, FiniteSets

MaxM == 3        \* rows of the grid: 1..MaxM
MaxN == 4        \* columns of the grid: 1..MaxN
MaxR == 2        \* radius: 0..MaxR
MaxD == 2        \* horizontal spacing: 1..MaxD
MaxL == 2        \* vertical spacing: 1..MaxL
MaxK == 1        \* number of stations: 0..MaxK
Modulus == 5     \* field values are kept in 0..Modulus-1

\* Candidate station sites <<lon, lat>>, in the grid's units.
StationSites == { <<0, 0>>, <<1, 0>>, <<1, 1>> }

\* Candidate random vectors: rand[num] for the seed.
Seeds == {1, 2}

VARIABLES
    M, N, K,             \* var['M'], var['N'], var['K']
    r,                   \* radius
    d, l,                \* uniform spacing: ld['d'][i] = d, ld['l'][i] = l
    station,             \* var['site_collection_station']: sequence of <<lon, lat>>
    seed,                \* selects the random vector rand
    pc,                  \* position of main: "start", "row", "cell", "done", "error"
    i, j,                \* loop counters of main
    vhva,                \* result of calc_vert_hor for row i
    dist,                \* result of calc_full_dist for row i
    first_time_per_row,  \* main's flag
    base,                \* main's cached solve (and what it was computed from)
    X, grid_arr, mu_arr, sigma_arr, rand_arr,   \* main's arrays, indexed 0..M*N-1
    num,                 \* main's local: linear index of the last processed cell
    dist_calc, out,      \* main's locals for the last processed cell
    branch,              \* branch main took for the last processed cell
    COR                  \* returned grid, set when main returns

vars == << M, N, K, r, d, l, station, seed, pc, i, j, vhva, dist,
           first_time_per_row, base, X, grid_arr, mu_arr, sigma_arr, rand_arr,
           num, dist_calc, out, branch, COR >>

inputs == << M, N, K, r, d, l, station, seed >>

-----------------------------------------------------------------------------
(* Helpers *)

\* python range(a, b) as a sequence
Range(a, b) == [t \in 1..(IF b > a THEN b - a ELSE 0) |-> a + t - 1]

RECURSIVE SumSeq(_)
SumSeq(s) == IF s = << >> THEN 0 ELSE Head(s) + SumSeq(Tail(s))

\* Entry of a grid array that was never assigned (python None)
None == << -1 >>

\* rand[num]
rand(g) == 1 + ((seed * (g + 1)) % 3)

\* Coordinates of grid cell g.  Indexing the site collection past its end
\* raises IndexError; callers test InGrid first.
InGrid(g) == g >= 0 /\ g < M * N
lons(g) == (g % N) * d
lats(g) == (g \div N) * l

geodetic_distance(lon1, lat1, lon2, lat2) ==
    (lon1 - lon2) * (lon1 - lon2) + (lat1 - lat2) * (lat1 - lat2)

-----------------------------------------------------------------------------
(* set_up_grid_dist *)

\* d[:] is filled from cells range(0,M*N,N) against cells range(1,M*N,N);
\* for N = 1 the second list has M-1 entries and the shapes only broadcast
\* when M = 2.
set_up_grid_dist_fails == N = 1 /\ M # 2

-----------------------------------------------------------------------------
(* calc_vert_hor *)

\* l[1] raises IndexError when l has fewer than two entries (M < 3)
calc_vert_hor_fails == M < 3

\* variant of calc_vert_hor that counts one column too many
calc_vert_hor_wide(row, rad, ll, dd) ==
    LET hor == (rad \div dd) + 1
    IN  IF row * ll <= rad
        THEN [vert |-> row + 1, hor |-> hor, added_vert |-> 0]
        ELSE [vert |-> (rad \div ll) + 1, hor |-> hor,
              added_vert |-> row - ((rad \div ll) + 1) + 1]

calc_vert_hor(row, rad, ll, dd) ==
    LET hor == rad \div dd
    IN  IF row * ll <= rad
        THEN [vert |-> row + 1, hor |-> hor, added_vert |-> 0]
        ELSE [vert |-> (rad \div ll) + 1, hor |-> hor,
              added_vert |-> row - ((rad \div ll) + 1) + 1]

-----------------------------------------------------------------------------
(* calc_full_dist *)

RECURSIVE GridIndicesFrom(_, _, _, _)
GridIndicesFrom(k, row, hor, n) ==
    IF k > row THEN << >>
    ELSE LET cols == IF k = row THEN Range(0, hor + 1) ELSE Range(0, 2 * hor + 1)
         IN  [t \in 1..Len(cols) |-> cols[t] + n * k]
             \o GridIndicesFrom(k + 1, row, hor, n)

grid_indices_of(row, vert, hor, n) == GridIndicesFrom(row - vert + 1, row, hor, n)

\* lons[grid_indices[k]] raises IndexError when an index lies past the grid
calc_full_dist_fails(row, vert, hor, n) ==
    \E t \in DOMAIN grid_indices_of(row, vert, hor, n) :
        ~InGrid(grid_indices_of(row, vert, hor, n)[t])

calc_full_dist(row, vert, hor, n) ==
    LET gi == grid_indices_of(row, vert, hor, n)
    IN  [grid_indices |-> gi,
         distance_matrix |->
             [a \in 1..Len(gi) |-> [b \in 1..Len(gi) |->
                 geodetic_distance(lons(gi[a]), lats(gi[a]), lons(gi[b]), lats(gi[b]))]]]

-----------------------------------------------------------------------------
(* reduce_distance *)

\* The three geometric cases
OnLeft(col, hor) == col < hor
OnRight(col, hor, n) == ~OnLeft(col, hor) /\ col > n - hor - 1

\* num_indices: number of points kept in a full-width row of the template
num_indices_of(col, vert, hor, n) ==
    IF OnLeft(col, hor)
    THEN (IF vert = 1 THEN col + 1 ELSE col + hor + 1)
    ELSE IF OnRight(col, hor, n)
    THEN (IF vert = 1 THEN 1 + hor ELSE n - col + hor)
    ELSE (IF vert = 1 THEN 1 + hor ELSE 2 * hor + 1)

\* the np.where filter on template position p (0-based)
KeepPosition(p, col, vert, hor, n) ==
    LET ni == num_indices_of(col, vert, hor, n)
    IN  IF vert = 1
        THEN p % (hor + 1) >= hor + 1 - ni
        ELSE IF OnRight(col, hor, n)
        THEN p % (2 * hor + 1) <= ni - 1
        ELSE p % (2 * hor + 1) >= 2 * hor + 1 - ni

inc_indices_of(col, vert, hor, n, grid_indices) ==
    SelectSeq(Range(0, Len(grid_indices)),
              LAMBDA p : KeepPosition(p, col, vert, hor, n))

\* columns visited by the eta loops: the current row (k = vert-1) and the rows above
EtaLast(col, hor, n) ==
    IF OnLeft(col, hor) THEN Range(0, col + 1) ELSE Range(col - hor, col + 1)

EtaAbove(col, hor, n) ==
    IF OnLeft(col, hor) THEN Range(0, col + hor + 1)
    ELSE IF OnRight(col, hor, n) THEN Range(col - hor, n)
    ELSE Range(col - hor, col + hor + 1)

RECURSIVE IncIndFrom(_, _, _, _, _, _)
IncIndFrom(k, col, vert, hor, added_vert, n) ==
    IF k >= vert THEN << >>
    ELSE LET etas == IF k = vert - 1 THEN EtaLast(col, hor, n) ELSE EtaAbove(col, hor, n)
         IN  [t \in 1..Len(etas) |-> etas[t] + n * k + n * added_vert]
             \o IncIndFrom(k + 1, col, vert, hor, added_vert, n)

\* dist_mat = distance_matrix[:, inc_indices][inc_indices, :]
Gather(distance_matrix, inc_indices) ==
    [a \in 1..Len(inc_indices) |-> [b \in 1..Len(inc_indices) |->
        distance_matrix[inc_indices[a] + 1][inc_indices[b] + 1]]]

reduce_distance(col, vert, hor, added_vert, n, distance_matrix, grid_indices) ==
    LET ii == inc_indices_of(col, vert, hor, n, grid_indices)
    IN  [dist_mat    |-> Gather(distance_matrix, ii),
         inc_indices |-> ii,
         inc_ind     |-> IncIndFrom(0, col, vert, hor, added_vert, n),
         num_indices |-> num_indices_of(col, vert, hor, n)]

-----------------------------------------------------------------------------
(* inc_stations *)

\* np.where(dist_sta_sit < r): stations strictly inside the radius of cell g
StationInRadius(s, g, rad) ==
    geodetic_distance(lons(g), lats(g), station[s + 1][1], station[s + 1][2])
        < rad * rad

inc_sta_indices_of(g, k, rad) ==
    SelectSeq(Range(0, k), LAMBDA s : StationInRadius(s, g, rad))

\* X[inc_ind, 0] and lons[iinds] raise IndexError on an index past the grid
inc_stations_fails(inc_ind) == \E t \in DOMAIN inc_ind : ~InGrid(inc_ind[t])

\* x[0:-1]
DropLast(s) == IF s = << >> THEN << >> ELSE SubSeq(s, 1, Len(s) - 1)

inc_stations(col, row, n, k, rad, dist_mat, XX, inc_ind) ==
    LET sta == inc_sta_indices_of(col + row * n, k, rad)
        ns  == Len(sta)
        ng  == Len(inc_ind)
        slon(a) == station[sta[a] + 1][1]
        slat(a) == station[sta[a] + 1][2]
        Entry(a, b) ==
            IF a <= ns /\ b <= ns
            THEN geodetic_distance(slon(a), slat(a), slon(b), slat(b))
            ELSE IF a <= ns
            THEN geodetic_distance(slon(a), slat(a),
                                   lons(inc_ind[b - ns]), lats(inc_ind[b - ns]))
            ELSE IF b <= ns
            THEN geodetic_distance(slon(b), slat(b),
                                   lons(inc_ind[a - ns]), lats(inc_ind[a - ns]))
            ELSE dist_mat[a - ns][b - ns]
        known == [t \in 1..ng |-> XX[inc_ind[t]]]
    IN  IF ns # 0
        THEN [dist_mat |-> [a \in 1..(ns + Len(dist_mat)) |->
                              [b \in 1..(ns + Len(dist_mat)) |-> Entry(a, b)]],
              x |-> DropLast([t \in 1..ns |-> 0] \o known),
              inc_sta_indices |-> sta]
        ELSE [dist_mat |-> dist_mat,
              x |-> DropLast(known),
              inc_sta_indices |-> sta]

-----------------------------------------------------------------------------
(* calculate_corr *)

\* The weights Sig12.T*Sig11inv (one per conditioning point, i.e. per row of
\* the matrix but the last) and the conditional std R, as a deterministic
\* function of the distance matrix.
calculate_corr(dist_mat) ==
    LET n == Len(dist_mat) - 1
    IN  [w |-> [k \in 1..n |->
                   (1 + dist_mat[k][n + 1] + SumSeq(dist_mat[k])) % Modulus],
         R |-> 1 + (SumSeq(dist_mat[n + 1]) % (Modulus - 1))]

\* Sig12.T*Sig11inv*x ; the product raises ValueError on a shape mismatch
Dot(w, x) == SumSeq([k \in 1..Len(w) |-> w[k] * x[k]]) % Modulus

-----------------------------------------------------------------------------
(* main *)

Cells == 0..(M * N - 1)

\* variant of LinearIndex that drops the column
LinearIndex_row(row, col, n) == row * n

\* num = i*N+j
LinearIndex(row, col, n) == row * n + col

\* variant of RowStartFlag that keeps the flag of the previous row
RowStartFlag_stale(flag) == flag

\* first_time_per_row = 1 at the start of every row
RowStartFlag(flag) == 1

\* variant of NoConditioningPoints that tests for size 0
NoConditioningPoints_empty(dc) == Len(dc.inc_indices) = 0

\* np.size(dist_calc['inc_indices']) == 1
NoConditioningPoints(dc) == Len(dc.inc_indices) = 1

\* "reduced distance matrix is full distance matrix", and no station merged
IsFullWindow(vh, dc, o) ==
    /\ \/ (vh.vert = 1 /\ dc.num_indices = vh.hor + 1)
       \/ (vh.vert # 1 /\ dc.num_indices = 2 * vh.hor + 1)
    /\ Len(o.inc_sta_indices) = 0

\* arr[num] = v
Store(arr, g, v) == [arr EXCEPT ![g] = v]

\* dist_calc['inc_ind'][0:-1]
StoredIndices(dc) == DropLast(dc.inc_ind)

NoBase == [w |-> << >>, R |-> 0, dist_mat |-> << >>, row |-> -1]

Init ==
    /\ M \in 1..MaxM
    /\ N \in 1..MaxN
    /\ r \in 0..MaxR
    /\ d \in 1..MaxD
    /\ l \in 1..MaxL
    /\ K \in 0..MaxK
    /\ station \in [1..K -> StationSites]
    /\ seed \in Seeds
    /\ pc = "start"
    /\ i = 0
    /\ j = 0
    /\ vhva = [vert |-> 0, hor |-> 0, added_vert |-> 0]
    /\ dist = [grid_indices |-> << >>, distance_matrix |-> << >>]
    /\ first_time_per_row = 1
    /\ base = NoBase
    /\ X = [g \in Cells |-> 0]
    /\ grid_arr = [g \in Cells |-> None]
    /\ mu_arr = [g \in Cells |-> None]
    /\ sigma_arr = [g \in Cells |-> 0]
    /\ rand_arr = [g \in Cells |-> 0]
    /\ num = -1
    /\ dist_calc = [dist_mat |-> << >>, inc_indices |-> << >>, inc_ind |-> << >>,
                    num_indices |-> 0]
    /\ out = [dist_mat |-> << >>, x |-> << >>, inc_sta_indices |-> << >>]
    /\ branch = "none"
    /\ COR = << >>

\* lines 44-69: allocation and set_up_grid_dist
SetUp ==
    /\ pc = "start"
    /\ pc' = IF set_up_grid_dist_fails THEN "error" ELSE "row"
    /\ UNCHANGED << inputs, i, j, vhva, dist, first_time_per_row, base, X, grid_arr,
                    mu_arr, sigma_arr, rand_arr, num, dist_calc, out, branch, COR >>

\* lines 71-80: head of the outer loop
RowStart ==
    /\ pc = "row"
    /\ i < M
    /\ IF calc_vert_hor_fails
       THEN /\ pc' = "error"
            /\ UNCHANGED << vhva, dist, first_time_per_row, j >>
       ELSE LET vh == calc_vert_hor(i, r, l, d)
            IN  /\ vhva' = vh
                /\ IF calc_full_dist_fails(i, vh.vert, vh.hor, N)
                   THEN /\ pc' = "error"
                        /\ UNCHANGED << dist, first_time_per_row, j >>
                   ELSE /\ dist' = calc_full_dist(i, vh.vert, vh.hor, N)
                        /\ first_time_per_row' = RowStartFlag(first_time_per_row)
                        /\ j' = 0
                        /\ pc' = "cell"
    /\ UNCHANGED << inputs, i, base, X, grid_arr, mu_arr, sigma_arr, rand_arr,
                    num, dist_calc, out, branch, COR >>

\* lines 82-135: one pass of the inner loop
Cell ==
    /\ pc = "cell"
    /\ LET g  == LinearIndex(i, j, N)
           dc == reduce_distance(j, vhva.vert, vhva.hor, vhva.added_vert, N,
                                 dist.distance_matrix, dist.grid_indices)
       IN
       /\ num' = g
       /\ dist_calc' = dc
       /\ IF inc_stations_fails(dc.inc_ind) \/ ~InGrid(g)
          THEN /\ pc' = "error"
               /\ UNCHANGED << i, j, first_time_per_row, base, X, grid_arr, mu_arr,
                               sigma_arr, rand_arr, out, branch >>
          ELSE
          LET o == inc_stations(j, i, N, K, r, dc.dist_mat, X, dc.inc_ind)
              advance ==
                  IF j + 1 < N
                  THEN j' = j + 1 /\ i' = i /\ pc' = "cell"
                  ELSE j' = j /\ i' = i + 1 /\ pc' = "row"
          IN
          /\ out' = o
          /\ IF NoConditioningPoints(dc)
             THEN \* no conditioning points, correlation value is random
                  /\ X' = Store(X, g, rand(g))
                  /\ grid_arr' = Store(grid_arr, g, << >>)
                  /\ mu_arr' = Store(mu_arr, g, << >>)
                  /\ sigma_arr' = Store(sigma_arr, g, 1)
                  /\ rand_arr' = Store(rand_arr, g, rand(g))
                  /\ branch' = "random"
                  /\ UNCHANGED << first_time_per_row, base >>
                  /\ advance
             ELSE IF IsFullWindow(vhva, dc, o)
             THEN LET fresh == calculate_corr(o.dist_mat)
                      b == IF first_time_per_row = 1
                           THEN [w |-> fresh.w, R |-> fresh.R,
                                 dist_mat |-> o.dist_mat, row |-> i]
                           ELSE base
                  IN  /\ base' = b
                      /\ first_time_per_row' = 0
                      /\ branch' = IF first_time_per_row = 1 THEN "base_new"
                                   ELSE "base_reuse"
                      /\ IF Len(b.w) # Len(o.x)
                         THEN /\ pc' = "error"
                              /\ UNCHANGED << i, j, X, grid_arr, mu_arr, sigma_arr,
                                              rand_arr >>
                         ELSE /\ X' = Store(X, g, (Dot(b.w, o.x) + rand(g) * b.R) % Modulus)
                              /\ grid_arr' = Store(grid_arr, g, StoredIndices(dc))
                              /\ mu_arr' = Store(mu_arr, g, b.w)
                              /\ sigma_arr' = Store(sigma_arr, g, b.R)
                              /\ rand_arr' = Store(rand_arr, g, rand(g))
                              /\ advance
             ELSE LET other == calculate_corr(o.dist_mat)
                  IN  /\ X' = Store(X, g, (Dot(other.w, o.x) + rand(g) * other.R) % Modulus)
                      /\ grid_arr' = Store(grid_arr, g, StoredIndices(dc))
                      /\ mu_arr' = Store(mu_arr, g, other.w)
                      /\ sigma_arr' = Store(sigma_arr, g, other.R)
                      /\ rand_arr' = Store(rand_arr, g, rand(g))
                      /\ branch' = "other"
                      /\ UNCHANGED << first_time_per_row, base >>
                      /\ advance
    /\ UNCHANGED << inputs, vhva, dist, COR >>

\* lines 137-149: COR = np.reshape(X, [M,N]) and return
Finish ==
    /\ pc = "row"
    /\ i = M
    /\ COR' = [a \in 1..M |-> [b \in 1..N |-> X[(a - 1) * N + (b - 1)]]]
    /\ pc' = "done"
    /\ UNCHANGED << inputs, i, j, vhva, dist, first_time_per_row, base, X, grid_arr,
                    mu_arr, sigma_arr, rand_arr, num, dist_calc, out, branch >>

Next == SetUp \/ RowStart \/ Cell \/ Finish

Spec == Init /\ [][Next]_vars

-----------------------------------------------------------------------------
(* Properties of main *)

RowOf(g) == g \div N
ColOf(g) == g % N
Abs(a) == IF a < 0 THEN -a ELSE a

\* The last pass of the inner loop stored cell num, and vhva, dist, dist_calc
\* and out are still the ones that pass used.
Processed ==
    /\ num >= 0
    /\ grid_arr[num] # None
    /\ vhva.vert + vhva.added_vert = RowOf(num) + 1

\* Stations the code counts as inside the radius of cell g
StationsNear(g) == { s \in 0..(K - 1) : StationInRadius(s, g, r) }

\* Distance between two grid cells given by (row, column) on the uniform grid
CellDistance(g1, g2) ==
    geodetic_distance(ColOf(g1) * d, RowOf(g1) * l, ColOf(g2) * d, RowOf(g2) * l)

\* C1 (as claimed): every conditioning index read for cell num is an
\* already-simulated cell, 0 <= index < num, in a row <= the cell's row, and
\* the last entry of inc_ind is num itself.
C1_Causality ==
    Processed =>
        /\ dist_calc.inc_ind[Len(dist_calc.inc_ind)] = num
        /\ \A t \in 1..(Len(dist_calc.inc_ind) - 1) :
              /\ dist_calc.inc_ind[t] >= 0
              /\ dist_calc.inc_ind[t] < num
              /\ RowOf(dist_calc.inc_ind[t]) <= RowOf(num)

\* C2 (as claimed): every station inside the radius of a processed cell has a
\* row/column in the distance matrix that is solved for the cell and a zero
\* entry in the known-value vector, also for cells without a grid neighbour.
C2_StationsConditioned ==
    Processed =>
        \A s \in StationsNear(num) :
            /\ branch # "random"
            /\ \E a \in 1..Len(out.inc_sta_indices) :
                  out.inc_sta_indices[a] = s /\ out.x[a] = 0
            /\ Len(mu_arr[num]) = Len(out.dist_mat) - 1

\* Replaying the stored metadata in row-major order into a zero field
ReplayDot(w, idx, XR) == SumSeq([k \in 1..Len(idx) |-> w[k] * XR[idx[k]]]) % Modulus

RECURSIVE ReplayFrom(_, _)
ReplayFrom(g, XR) ==
    IF g >= M * N THEN XR
    ELSE ReplayFrom(g + 1,
            [XR EXCEPT ![g] =
                IF grid_arr[g] = << >> THEN rand(g)
                ELSE (ReplayDot(mu_arr[g], grid_arr[g], XR)
                      + rand(g) * sigma_arr[g]) % Modulus])

\* C3 (as claimed): when main has returned, mu_arr[num] has one weight per
\* index of grid_arr[num], and the replay of the metadata reproduces the field.
C3_ResamplingRoundTrip ==
    pc = "done" =>
        /\ \A g \in Cells : Len(mu_arr[g]) = Len(grid_arr[g])
        /\ ReplayFrom(0, [g \in Cells |-> 0]) = X

\* C4 (as claimed): on a single-row grid main processes every cell, cell 0 is
\* unconditioned and no conditioning index is >= N.
C4_SingleRowGrid ==
    (M = 1 /\ N >= 2 /\ pc \in {"done", "error"}) =>
        /\ pc = "done"
        /\ grid_arr[0] = << >>
        /\ \A g \in Cells : \A t \in 1..Len(grid_arr[g]) : grid_arr[g][t] < N

\* C5: the cached base solve is reused only for a full-shape window without
\* stations and with a base computed earlier in the same row, and then the
\* cell's distance matrix is the one the base was computed from, so that the
\* stored weights and std are those of a fresh solve for the cell.
C5_CacheReuseSound ==
    (Processed /\ branch = "base_reuse") =>
        /\ dist_calc.dist_mat = dist.distance_matrix
        /\ Len(dist_calc.inc_ind) = Len(dist.grid_indices)
        /\ StationsNear(num) = {}
        /\ out.inc_sta_indices = << >>
        /\ base.row = RowOf(num)
        /\ base.dist_mat = out.dist_mat
        /\ mu_arr[num] = calculate_corr(out.dist_mat).w
        /\ sigma_arr[num] = calculate_corr(out.dist_mat).R

\* C5 witness: a cell of a row below the first reused the base of its row
C5_Witness ==
    /\ Processed
    /\ branch = "base_reuse"
    /\ RowOf(num) >= 1
    /\ vhva.vert > 1
    /\ Len(mu_arr[num]) >= 2

\* C6 (as claimed): every conditioning cell lies within Euclidean distance r
C6_WithinRadius ==
    Processed =>
        \A t \in 1..Len(grid_arr[num]) :
            CellDistance(grid_arr[num][t], num) <= r * r

\* C6 (amended): every conditioning cell lies within the rectangular window:
\* at most r away along the row (|dc|*d <= r) and at most r above (dr*l <= r).
C6_WithinWindow ==
    Processed =>
        \A t \in 1..Len(grid_arr[num]) :
            LET g == grid_arr[num][t]
            IN  /\ Abs(ColOf(g) - ColOf(num)) * d <= r
                /\ (RowOf(num) - RowOf(g)) * l <= r

\* C6 witness: a conditioning cell at a corner of the window, farther than r
C6_Witness ==
    /\ Processed
    /\ \E t \in 1..Len(grid_arr[num]) :
          LET g == grid_arr[num][t]
          IN  /\ ColOf(g) # ColOf(num)
              /\ RowOf(g) < RowOf(num)
              /\ CellDistance(g, num) > r * r
              /\ Abs(ColOf(g) - ColOf(num)) * d <= r
              /\ (RowOf(num) - RowOf(g)) * l <= r

\* C7: a cell with an empty conditioning set (no grid cell but itself in the
\* reduced window, no station in range), the first cell in particular, gets
\* its raw random draw, std 1, empty weights and indices, and no solve.
C7_Unconditioned ==
    (Processed /\ StationsNear(num) = {}) =>
        /\ (num = 0 => Len(dist_calc.inc_ind) = 1)
        /\ (Len(dist_calc.inc_ind) = 1 =>
               /\ branch = "random"
               /\ X[num] = rand(num)
               /\ sigma_arr[num] = 1
               /\ mu_arr[num] = << >>
               /\ grid_arr[num] = << >>
               /\ rand_arr[num] = rand(num))

\* C7 witness: an unconditioned cell other than the first was processed
C7_Witness ==
    /\ Processed
    /\ StationsNear(num) = {}
    /\ Len(dist_calc.inc_ind) = 1
    /\ num > 0
    /\ K > 0
    /\ X[num] = rand(num)

\* C8 (as claimed): with a non-positive radius main stops before the first
\* cell, and no value or metadata entry is written.
C8_FailFast ==
    r <= 0 =>
        /\ pc # "done"
        /\ num = -1
        /\ \A g \in Cells : grid_arr[g] = None /\ mu_arr[g] = None

Written(arr) == { g \in Cells : arr[g] # None }

\* C9: the cells are stored in the order 0, 1, 2, ... with none skipped or
\* repeated; a pass of the inner loop writes index num of every array and no
\* other index; a stored entry is never modified; main returns with all stored.
C9_WriteOnce ==
    /\ [][ /\ \A g \in Cells :
                (grid_arr[g] # None \/ g # num') =>
                    /\ X'[g] = X[g]
                    /\ grid_arr'[g] = grid_arr[g]
                    /\ mu_arr'[g] = mu_arr[g]
                    /\ sigma_arr'[g] = sigma_arr[g]
                    /\ rand_arr'[g] = rand_arr[g]
           /\ (pc = "cell" /\ pc' # "error") =>
                    /\ num' = Cardinality(Written(grid_arr))
                    /\ num' = i * N + j
                    /\ Written(grid_arr') = 0..num'
                    /\ Written(mu_arr') = 0..num'
                    /\ rand_arr'[num'] = rand(num')
                    /\ sigma_arr'[num'] =
                           IF branch' = "random" THEN 1
                           ELSE calculate_corr(out'.dist_mat).R
                    /\ X'[num'] =
                           IF branch' = "random" THEN rand(num')
                           ELSE (Dot(mu_arr'[num'], out'.x)
                                 + rand(num') * sigma_arr'[num']) % Modulus
           /\ pc # "cell" => Written(grid_arr') = Written(grid_arr)
         ]_vars
    /\ [](pc = "done" => Written(grid_arr) = Cells /\ Written(mu_arr) = Cells)

\* C9 witness: main returned from a grid of at least six cells
C9_Witness ==
    /\ pc = "done"
    /\ M * N >= 6
    /\ Written(grid_arr) = Cells
    /\ \E g \in Cells : grid_arr[g] # << >>

\* C10 (as claimed): the selected template positions and inc_ind have the same
\* length, the k-th selected template cell shifted by j - hor columns is
\* inc_ind[k], and every entry of the reduced distance matrix is the distance
\* between the two grid cells of inc_ind.
C10_Alignment ==
    Processed =>
        /\ Len(dist_calc.inc_indices) = Len(dist_calc.inc_ind)
        /\ \A k \in 1..Len(dist_calc.inc_ind) :
              dist_calc.inc_ind[k] =
                  dist.grid_indices[dist_calc.inc_indices[k] + 1]
                      + ColOf(num) - vhva.hor
        /\ \A a, b \in 1..Len(dist_calc.inc_ind) :
              dist_calc.dist_mat[a][b] =
                  CellDistance(dist_calc.inc_ind[a], dist_calc.inc_ind[b])

=============================================================================
